---- MODULE Spec2Model ----
(***************************************************************************)
(* Model of analyze_claim_with_ai (src/fnol_intelligence_suite.py).        *)
(*                                                                         *)
(* Text is a sequence of one-character strings, so that str.strip,         *)
(* str.lower, str.startswith, str.replace and str.split are modelled by    *)
(* what they do to the characters.  An optional value (Python None or a    *)
(* value) is a sequence of length 0 or 1.                                  *)
(***************************************************************************)
EXTENDS Integers, Sequences, FiniteSets, TLC

\* ------------------------------------------------------------------ bounds
\* Most images a submission carries.
MaxImages == 4
\* Most lines of a model reply in the whole-function specification.
MaxReplyLines == 1
\* Most lines of a reply in the parser specification.
MaxLines == 2

\* ------------------------------------------------------------------ text
None == <<>>
Some(x) == <<x>>

Min(a, b) == IF a < b THEN a ELSE b

\* Characters str.strip() removes.
Whitespace == {" ", "\t", "\r", "\n"}

UpperCase == <<"A","B","C","D","E","F","G","H","I","J","K","L","M",
               "N","O","P","Q","R","S","T","U","V","W","X","Y","Z">>
LowerCase == <<"a","b","c","d","e","f","g","h","i","j","k","l","m",
               "n","o","p","q","r","s","t","u","v","w","x","y","z">>

\* str.lower() on one character.
LowerChar(c) ==
    IF \E i \in 1..Len(UpperCase) : UpperCase[i] = c
    THEN LowerCase[CHOOSE i \in 1..Len(UpperCase) : UpperCase[i] = c]
    ELSE c

\* s.lower()
Lower(s) == [i \in 1..Len(s) |-> LowerChar(s[i])]

\* s.strip(): what lies between the first and the last character that is
\* not whitespace.
Strip(s) ==
    LET keep == {i \in 1..Len(s) : s[i] \notin Whitespace} IN
    IF keep = {} THEN <<>>
    ELSE SubSeq(s, CHOOSE i \in keep : \A j \in keep : i <= j,
                   CHOOSE i \in keep : \A j \in keep : j <= i)

\* StartsWith testing `p in s` instead.
StartsWith_Contains(s, p) ==
    \E i \in 1..(Len(s) - Len(p) + 1) : SubSeq(s, i, i + Len(p) - 1) = p

\* s.startswith(p)
StartsWith(s, p) == Len(s) >= Len(p) /\ SubSeq(s, 1, Len(p)) = p

\* Positions at which old occurs in s.
Occurrences(s, old) ==
    {i \in 1..(Len(s) - Len(old) + 1) : SubSeq(s, i, i + Len(old) - 1) = old}

\* s.replace(old, ""): every non-overlapping occurrence of old, scanning from
\* the left, is removed (old is never empty here).
RECURSIVE Replace(_, _)
Replace(s, old) ==
    LET occ == Occurrences(s, old) IN
    IF occ = {} THEN s
    ELSE LET first == CHOOSE i \in occ : \A j \in occ : i <= j IN
         SubSeq(s, 1, first - 1)
             \o Replace(SubSeq(s, first + Len(old), Len(s)), old)

\* s.split(sep) for a one-character sep: n separators give n + 1 segments,
\* the k-th lying between the (k-1)-th and the k-th separator.
Split(s, sep) ==
    LET at == {i \in 1..Len(s) : s[i] = sep}
        nth(k) == CHOOSE i \in at : Cardinality({j \in at : j < i}) = k - 1
        n == Cardinality(at)
    IN [k \in 1..(n + 1) |->
           SubSeq(s, IF k = 1 THEN 1 ELSE nth(k - 1) + 1,
                     IF k = n + 1 THEN Len(s) ELSE nth(k) - 1)]

\* ------------------------------------------------------------------ literals
L_RISK_LEVEL == <<"R","I","S","K","_","L","E","V","E","L",":">>
L_RISK_FLAGS == <<"R","I","S","K","_","F","L","A","G","S",":">>
L_SUBROGATION_POTENTIAL ==
    <<"S","U","B","R","O","G","A","T","I","O","N","_",
      "P","O","T","E","N","T","I","A","L",":">>
L_ALE_ALERT == <<"A","L","E","_","A","L","E","R","T",":">>
L_SUMMARY == <<"S","U","M","M","A","R","Y",":">>

T_Low == <<"L","o","w">>
T_Medium == <<"M","e","d","i","u","m">>
T_High == <<"H","i","g","h">>
T_Unknown == <<"U","n","k","n","o","w","n">>
T_none == <<"n","o","n","e">>
T_none_identified ==
    <<"n","o","n","e"," ","i","d","e","n","t","i","f","i","e","d">>
T_na == <<"n","/","a">>
T_yes == <<"y","e","s">>

\* "AI analysis unavailable - API key not configured"
T_KeyMissingFlag ==
    <<"A","I"," ","a","n","a","l","y","s","i","s"," ","u","n","a","v","a",
      "i","l","a","b","l","e"," ","-"," ","A","P","I"," ","k","e","y"," ",
      "n","o","t"," ","c","o","n","f","i","g","u","r","e","d">>
\* "AI analysis requires a valid GOOGLE_API_KEY."
T_KeyMissingSummary ==
    <<"A","I"," ","a","n","a","l","y","s","i","s"," ","r","e","q","u","i",
      "r","e","s"," ","a"," ","v","a","l","i","d"," ","G","O","O","G","L",
      "E","_","A","P","I","_","K","E","Y",".">>
\* "AI analysis error: "
T_ErrorFlagPrefix ==
    <<"A","I"," ","a","n","a","l","y","s","i","s"," ","e","r","r","o","r",
      ":"," ">>
\* "Unable to complete AI analysis."
T_FailureSummary ==
    <<"U","n","a","b","l","e"," ","t","o"," ","c","o","m","p","l","e","t",
      "e"," ","A","I"," ","a","n","a","l","y","s","i","s",".">>

\* ------------------------------------------------------------------ parser
\* The result record before parsing (lines 141-147).
DefaultResult ==
    [risk_level |-> T_Medium,
     risk_flags |-> <<>>,
     subrogation_potential |-> None,
     ale_alert |-> FALSE,
     ai_summary |-> <<>>]

\* [f.strip() for f in flags.split(",") if f.strip()]
FlagList(flags) ==
    LET segs == Split(flags, ",")
        trimmed == [i \in 1..Len(segs) |-> Strip(segs[i])]
    IN SelectSeq(trimmed, LAMBDA f : f # <<>>)

\* RiskLevelOf storing whatever follows the label, with no fallback.
RiskLevelOf_Verbatim(level) == level

\* level if level in ["Low", "Medium", "High"] else "Medium" (line 153)
RiskLevelOf(level) ==
    IF level \in {T_Low, T_Medium, T_High} THEN level ELSE T_Medium

\* One iteration of the loop over the reply's lines (lines 150-166).
ParseLine(result, raw) ==
    LET line == Strip(raw) IN
    IF StartsWith(line, L_RISK_LEVEL) THEN
        LET level == Strip(Replace(line, L_RISK_LEVEL)) IN
        [result EXCEPT !.risk_level = RiskLevelOf(level)]
    ELSE IF StartsWith(line, L_RISK_FLAGS) THEN
        LET flags == Strip(Replace(line, L_RISK_FLAGS)) IN
        IF Lower(flags) # T_none
        THEN [result EXCEPT !.risk_flags = FlagList(flags)]
        ELSE result
    ELSE IF StartsWith(line, L_SUBROGATION_POTENTIAL) THEN
        LET sub == Strip(Replace(line, L_SUBROGATION_POTENTIAL)) IN
        IF Lower(sub) \notin {T_none, T_none_identified, T_na}
        THEN [result EXCEPT !.subrogation_potential = Some(sub)]
        ELSE result
    ELSE IF StartsWith(line, L_ALE_ALERT) THEN
        LET ale == Lower(Strip(Replace(line, L_ALE_ALERT))) IN
        [result EXCEPT !.ale_alert = (ale = T_yes)]
    ELSE IF StartsWith(line, L_SUMMARY) THEN
        [result EXCEPT !.ai_summary = Strip(Replace(line, L_SUMMARY))]
    ELSE result

\* ------------------------------------------------------------------ catalogues
\* Reply lines of the whole-function specification.
CoreLines ==
      \* 'RISK_LEVEL: High'
    { <<"R","I","S","K","_","L","E","V","E","L",":"," ","H","i","g",
        "h">>,
      \* 'RISK_LEVEL: Unknown'
      <<"R","I","S","K","_","L","E","V","E","L",":"," ","U","n","k",
        "n","o","w","n">>,
      \* 'RISK_FLAGS: vague timeline, property vacancy'
      <<"R","I","S","K","_","F","L","A","G","S",":"," ","v","a","g",
        "u","e"," ","t","i","m","e","l","i","n","e",","," ","p","r",
        "o","p","e","r","t","y"," ","v","a","c","a","n","c","y">>,
      \* 'ALE_ALERT: Yes'
      <<"A","L","E","_","A","L","E","R","T",":"," ","Y","e","s">>,
      \* 'Here is my analysis'
      <<"H","e","r","e"," ","i","s"," ","m","y"," ","a","n","a","l",
        "y","s","i","s">> }

\* Text after the RISK_LEVEL: label.
LevelRemainders ==
      \* ' Low'
    { <<" ","L","o","w">>,
      \* ' High'
      <<" ","H","i","g","h">>,
      \* ' high'
      <<" ","h","i","g","h">>,
      \* ' Severe'
      <<" ","S","e","v","e","r","e">>,
      \* ''
      <<>>,
      \* ' High RISK_LEVEL:'
      <<" ","H","i","g","h"," ","R","I","S","K","_","L","E","V","E",
        "L",":">> }

\* Text after the RISK_FLAGS: label.
FlagRemainders ==
      \* ' None'
    { <<" ","N","o","n","e">>,
      \* ' vague timeline, property vacancy'
      <<" ","v","a","g","u","e"," ","t","i","m","e","l","i","n","e",
        ","," ","p","r","o","p","e","r","t","y"," ","v","a","c","a",
        "n","c","y">>,
      \* ''
      <<>>,
      \* ' a,,b ,'
      <<" ","a",",",",","b"," ",",">>,
      \* ' a, RISK_FLAGS:b'
      <<" ","a",","," ","R","I","S","K","_","F","L","A","G","S",":",
        "b">> }

\* Text after the SUBROGATION_POTENTIAL: label.
SubRemainders ==
      \* ' None identified'
    { <<" ","N","o","n","e"," ","i","d","e","n","t","i","f","i","e",
        "d">>,
      \* ' N/A'
      <<" ","N","/","A">>,
      \* ''
      <<>>,
      \* " Neighbor's tree fell on roof"
      <<" ","N","e","i","g","h","b","o","r","'","s"," ","t","r","e",
        "e"," ","f","e","l","l"," ","o","n"," ","r","o","o","f">>,
      \* ' nSUBROGATION_POTENTIAL:one'
      <<" ","n","S","U","B","R","O","G","A","T","I","O","N","_","P",
        "O","T","E","N","T","I","A","L",":","o","n","e">> }

\* Text after the ALE_ALERT: label.
AleRemainders ==
      \* ' yes'
    { <<" ","y","e","s">>,
      \* ' YES\r'
      <<" ","Y","E","S","\r">>,
      \* ' no'
      <<" ","n","o">>,
      \* ''
      <<>>,
      \* ' Yes please'
      <<" ","Y","e","s"," ","p","l","e","a","s","e">>,
      \* ' yALE_ALERT:es'
      <<" ","y","A","L","E","_","A","L","E","R","T",":","e","s">> }

\* Text after the SUMMARY: label.
SummaryRemainders ==
      \* ' Claim looks fine.'
    { <<" ","C","l","a","i","m"," ","l","o","o","k","s"," ","f","i",
        "n","e",".">>,
      \* ' see SUMMARY: above'
      <<" ","s","e","e"," ","S","U","M","M","A","R","Y",":"," ","a",
        "b","o","v","e">> }

\* Lines that do not begin with a label.
OtherLines ==
      \* ' RISK_LEVEL: Low'
    { <<" ","R","I","S","K","_","L","E","V","E","L",":"," ","L","o",
        "w">>,
      \* 'risk_level: High'
      <<"r","i","s","k","_","l","e","v","e","l",":"," ","H","i","g",
        "h">>,
      \* 'Here is my analysis'
      <<"H","e","r","e"," ","i","s"," ","m","y"," ","a","n","a","l",
        "y","s","i","s">>,
      \* 'Note ALE_ALERT: yes'
      <<"N","o","t","e"," ","A","L","E","_","A","L","E","R","T",":",
        " ","y","e","s">> }

\* str(e) of the exceptions the collaborators raise.
ErrorTexts ==
      \* 'timeout'
    { <<"t","i","m","e","o","u","t">>,
      \* ''
      <<>> }


\* ------------------------------------------------------------------ inputs
\* LOSS_TYPES (line 29).
LOSS_TYPES == {"Fire", "Water", "Hail", "Wind", "Theft"}

\* Descriptions a caller passes; the analyzer itself enforces nothing.
Descriptions == {"", "Kitchen fire, house unlivable"}

\* Values of the module-level GOOGLE_API_KEY (lines 40-52): None, the empty
\* string, or a key.
ApiKeys == {None, Some(<<>>), Some(<<"k","e","y">>)}

\* An uploaded file: its position in the upload and whether Image.open
\* can decode it.
ImageLists ==
    UNION {{[i \in 1..n |-> [id |-> i, ok |-> f[i]]] : f \in [1..n -> BOOLEAN]}
           : n \in 0..MaxImages}

\* "\n".join(ls)
RECURSIVE Join(_)
Join(ls) ==
    IF ls = <<>> THEN <<>>
    ELSE IF Len(ls) = 1 THEN ls[1]
    ELSE ls[1] \o <<"\n">> \o Join(Tail(ls))

\* The texts of at most n lines drawn from L.
TextsOf(L, n) == UNION {{Join(ls) : ls \in [1..k -> L]} : k \in 0..n}

\* A reply in the format the prompt asks for (lines 117-121).
WellFormedReply ==
    Join(<<L_RISK_LEVEL \o <<" ">> \o T_High,
           L_RISK_FLAGS \o <<" ","v","a","g","u","e"," ","t","i","m","e","l","i","n","e">>,
           L_SUBROGATION_POTENTIAL \o <<" ","N","o","n","e"," ","i","d","e","n","t","i","f","i","e","d">>,
           L_ALE_ALERT \o <<" ","Y","e","s">>,
           L_SUMMARY \o <<" ","T","o","t","a","l"," ","l","o","s","s",".">>>>)

\* response.text values the external model may give.
Replies == TextsOf(CoreLines, MaxReplyLines) \cup {WellFormedReply}

\* A label followed by each of the given remainders.
Labelled(label, remainders) == {label \o r : r \in remainders}

\* Reply lines of the parser specification.
AllLines ==
    Labelled(L_RISK_LEVEL, LevelRemainders)
        \cup Labelled(L_RISK_FLAGS, FlagRemainders)
        \cup Labelled(L_SUBROGATION_POTENTIAL, SubRemainders)
        \cup Labelled(L_ALE_ALERT, AleRemainders)
        \cup Labelled(L_SUMMARY, SummaryRemainders)
        \cup OtherLines

\* response.text values the parser specification starts from: the texts of
\* at most n catalogue lines.
ParseReplies(n) == TextsOf(AllLines, n)

\* ------------------------------------------------------------------ state
VARIABLES
    GOOGLE_API_KEY,    \* module-level credential
    description,       \* argument
    loss_type,         \* argument
    uploaded_images,   \* argument
    status_container,  \* argument: the label and state last set on it
    pc,                \* line the call is at; "done" returned, "raised" escaped
    content_parts,     \* local
    img_idx,           \* position of the loop over uploaded_images[:3]
    response_text,     \* local
    lines,             \* lines of response_text the parse loop has yet to see
    result,            \* local
    exc,               \* exceptions raised so far, oldest first: where, str(e)
    returned,          \* the value returned to the caller
    opened,            \* images handed to Image.open, in order
    generate_calls,    \* arguments of each model.generate_content call, in order
    main               \* the caller: line main is at, its locals, what it has shown

vars == <<GOOGLE_API_KEY, description, loss_type, uploaded_images,
          status_container, pc, content_parts, img_idx, response_text, lines,
          result, exc, returned, opened, generate_calls, main>>

inputs == <<GOOGLE_API_KEY, description, loss_type, uploaded_images, main>>

\* KeyConfigured testing `GOOGLE_API_KEY is not None` only.
KeyConfigured_NotNone(key) == key # None

\* `not GOOGLE_API_KEY` is false (line 96): neither None nor "".
KeyConfigured(key) == key # None /\ key[1] # <<>>

\* The f-string of lines 109-122: fixed text around the two arguments.
Prompt(lt, desc) == [loss_type |-> lt, description |-> desc]

\* ImageSlice with the limit off by one: uploaded_images[:4].
ImageSlice_First4(imgs) == SubSeq(imgs, 1, Min(4, Len(imgs)))

\* uploaded_images[:3] (line 127)
ImageSlice(imgs) == SubSeq(imgs, 1, Min(3, Len(imgs)))

\* The record returned when no key is configured (lines 97-103).
KeyMissingResult ==
    [risk_level |-> T_Unknown,
     risk_flags |-> <<T_KeyMissingFlag>>,
     subrogation_potential |-> None,
     ale_alert |-> FALSE,
     ai_summary |-> T_KeyMissingSummary]

\* The record returned by the exception handler (lines 175-181).
ErrorResult(text) ==
    [risk_level |-> T_Unknown,
     risk_flags |-> <<T_ErrorFlagPrefix \o text>>,
     subrogation_potential |-> None,
     ale_alert |-> FALSE,
     ai_summary |-> T_FailureSummary]

\* A statement inside the try block raises: control goes to line 173.
Raise(at, text) ==
    /\ exc' = Append(exc, [at |-> at, text |-> text])
    /\ pc' = "L173"

\* No main is running: the function is called on its own.
NoMain == [pc |-> "none"]

Init ==
    /\ GOOGLE_API_KEY \in ApiKeys
    /\ description \in Descriptions
    /\ loss_type \in LOSS_TYPES
    /\ uploaded_images \in ImageLists
    /\ status_container = [label |-> "Analyzing Claim Data...", state |-> "running"]
    /\ pc = "L96"
    /\ content_parts = <<>>
    /\ img_idx = 0
    /\ response_text = None
    /\ lines = <<>>
    /\ result = None
    /\ exc = <<>>
    /\ returned = None
    /\ opened = <<>>
    /\ generate_calls = <<>>
    /\ main = NoMain

\* ------------------------------------------------------------------ actions
\* Lines 96-103: short-circuit when no key is configured.
CheckKey ==
    /\ pc = "L96"
    /\ IF KeyConfigured(GOOGLE_API_KEY)
       THEN /\ pc' = "L106"
            /\ returned' = returned
       ELSE /\ pc' = "done"
            /\ returned' = Some(KeyMissingResult)
    /\ UNCHANGED <<inputs, status_container, content_parts, img_idx,
                   response_text, lines, result, exc, opened, generate_calls>>

\* status_container.update(label=..., state=...) at line `at` of the try
\* block: the container takes the label, or the call raises.
StatusUpdate(at, label, state, next) ==
    /\ \/ /\ status_container' = [label |-> label, state |-> state]
          /\ pc' = next
          /\ exc' = exc
       \/ /\ \E e \in ErrorTexts : Raise(at, e)
          /\ status_container' = status_container
    /\ UNCHANGED <<inputs, content_parts, img_idx, response_text, lines,
                   result, returned, opened, generate_calls>>

Update106 ==
    /\ pc = "L106"
    /\ StatusUpdate("L106", "Initializing AI Engine...", "running", "L107")

\* Line 107: genai.GenerativeModel("gemini-2.0-flash"), which may raise.
MakeModel ==
    /\ pc = "L107"
    /\ \/ /\ pc' = "L125"
          /\ exc' = exc
       \/ \E e \in ErrorTexts : Raise("L107", e)
    /\ UNCHANGED <<inputs, status_container, content_parts, img_idx,
                   response_text, lines, result, returned, opened,
                   generate_calls>>

Update125 ==
    /\ pc = "L125"
    /\ StatusUpdate("L125", "Processing uploaded documentation...", "running", "L126")

\* Line 126: content_parts = [prompt]
StartParts ==
    /\ pc = "L126"
    /\ content_parts' = <<Prompt(loss_type, description)>>
    /\ img_idx' = 1
    /\ pc' = "L127"
    /\ UNCHANGED <<inputs, status_container, response_text, lines, result,
                   exc, returned, opened, generate_calls>>

\* Lines 127-132: one iteration of the loop; an image Image.open cannot
\* decode raises inside the inner try and the loop continues.
OpenImage ==
    /\ pc = "L127"
    /\ img_idx <= Len(ImageSlice(uploaded_images))
    /\ LET img == ImageSlice(uploaded_images)[img_idx] IN
        /\ opened' = Append(opened, img)
        /\ content_parts' =
              IF img.ok THEN Append(content_parts, [image |-> img.id])
              ELSE content_parts
    /\ img_idx' = img_idx + 1
    /\ UNCHANGED <<inputs, status_container, pc, response_text, lines, result,
                   exc, returned, generate_calls>>

\* The loop of lines 127-132 is exhausted.
EndImages ==
    /\ pc = "L127"
    /\ img_idx > Len(ImageSlice(uploaded_images))
    /\ pc' = "L134"
    /\ UNCHANGED <<inputs, status_container, content_parts, img_idx,
                   response_text, lines, result, exc, returned, opened,
                   generate_calls>>

Update134 ==
    /\ pc = "L134"
    /\ StatusUpdate("L134", "Running SIU Risk Analysis...", "running", "L135")

\* Generate calling generate_content a second time when the first call raised.
Generate_Retry ==
    /\ pc = "L135"
    /\ generate_calls' = Append(generate_calls, content_parts)
    /\ \/ /\ pc' = "L136"
          /\ exc' = exc
       \/ /\ generate_calls = <<>>
          /\ UNCHANGED <<pc, exc>>
       \/ /\ generate_calls # <<>>
          /\ \E e \in ErrorTexts : Raise("L135", e)
    /\ UNCHANGED <<inputs, status_container, content_parts, img_idx,
                   response_text, lines, result, returned, opened>>

\* Line 135: model.generate_content(content_parts) returns a response or
\* raises.
Generate ==
    /\ pc = "L135"
    /\ generate_calls' = Append(generate_calls, content_parts)
    /\ \/ /\ pc' = "L136"
          /\ exc' = exc
       \/ \E e \in ErrorTexts : Raise("L135", e)
    /\ UNCHANGED <<inputs, status_container, content_parts, img_idx,
                   response_text, lines, result, returned, opened>>

\* Line 136: response.text yields the reply or raises.
ResponseText ==
    /\ pc = "L136"
    /\ \/ /\ \E t \in Replies : response_text' = Some(t)
          /\ pc' = "L138"
          /\ exc' = exc
       \/ /\ \E e \in ErrorTexts : Raise("L136", e)
          /\ response_text' = response_text
    /\ UNCHANGED <<inputs, status_container, content_parts, img_idx, lines,
                   result, returned, opened, generate_calls>>

Update138 ==
    /\ pc = "L138"
    /\ StatusUpdate("L138", "Evaluating Subrogation Potential...", "running", "L141")

\* Lines 141-149: the default result, and the reply split into lines.
StartParse ==
    /\ pc = "L141"
    /\ result' = Some(DefaultResult)
    /\ lines' = Split(response_text[1], "\n")
    /\ pc' = "L149"
    /\ UNCHANGED <<inputs, status_container, content_parts, img_idx,
                   response_text, exc, returned, opened, generate_calls>>

\* Lines 149-166: one iteration of the loop over the lines.
ParseNextLine ==
    /\ pc = "L149"
    /\ lines # <<>>
    /\ result' = Some(ParseLine(result[1], Head(lines)))
    /\ lines' = Tail(lines)
    /\ UNCHANGED <<inputs, status_container, pc, content_parts, img_idx,
                   response_text, exc, returned, opened, generate_calls>>

\* The loop of lines 149-166 is exhausted.
EndParse ==
    /\ pc = "L149"
    /\ lines = <<>>
    /\ pc' = "L168"
    /\ UNCHANGED <<inputs, status_container, content_parts, img_idx,
                   response_text, lines, result, exc, returned, opened,
                   generate_calls>>

Update168 ==
    /\ pc = "L168"
    /\ StatusUpdate("L168", "Checking ALE/Total Loss Indicators...", "running", "L169")

\* Line 169; the label's trailing check mark is left out.
Update169 ==
    /\ pc = "L169"
    /\ StatusUpdate("L169", "Analysis Complete", "complete", "L171")

\* Line 171: return result
ReturnResult ==
    /\ pc = "L171"
    /\ returned' = result
    /\ pc' = "done"
    /\ UNCHANGED <<inputs, status_container, content_parts, img_idx,
                   response_text, lines, result, exc, opened, generate_calls>>

\* Lines 173-181: the handler, e being the exception caught.  Its own
\* status_container.update (line 174) is outside any try block: if it raises,
\* that exception leaves the function.
HandleException ==
    /\ pc = "L173"
    /\ \/ /\ status_container' = [label |-> "Analysis Failed", state |-> "error"]
          /\ returned' = Some(ErrorResult(exc[1].text))
          /\ pc' = "done"
          /\ exc' = exc
       \/ /\ \E e \in ErrorTexts : exc' = Append(exc, [at |-> "L174", text |-> e])
          /\ pc' = "raised"
          /\ UNCHANGED <<status_container, returned>>
    /\ UNCHANGED <<inputs, content_parts, img_idx, response_text, lines,
                   result, opened, generate_calls>>

Next ==
    \/ CheckKey
    \/ Update106
    \/ MakeModel
    \/ Update125
    \/ StartParts
    \/ OpenImage
    \/ EndImages
    \/ Update134
    \/ Generate
    \/ ResponseText
    \/ Update138
    \/ StartParse
    \/ ParseNextLine
    \/ EndParse
    \/ Update168
    \/ Update169
    \/ ReturnResult
    \/ HandleException

Spec == Init /\ [][Next]_vars

\* ------------------------------------------------------------------ parser alone
\* The call as it stands at line 141: a key is configured, no image was
\* uploaded, generate_content returned, and response.text is any reply of the
\* larger catalogue.
ParseInit ==
    /\ GOOGLE_API_KEY = Some(<<"k","e","y">>)
    /\ description = "Kitchen fire, house unlivable"
    /\ loss_type = "Fire"
    /\ uploaded_images = <<>>
    /\ status_container =
          [label |-> "Evaluating Subrogation Potential...", state |-> "running"]
    /\ pc = "L141"
    /\ content_parts = <<Prompt(loss_type, description)>>
    /\ img_idx = 1
    /\ response_text \in {Some(t) : t \in ParseReplies(MaxLines)}
    /\ lines = <<>>
    /\ result = None
    /\ exc = <<>>
    /\ returned = None
    /\ opened = <<>>
    /\ generate_calls = <<content_parts>>
    /\ main = NoMain

ParseNext ==
    \/ StartParse
    \/ ParseNextLine
    \/ EndParse
    \/ Update168
    \/ Update169
    \/ ReturnResult
    \/ HandleException

ParseSpec == ParseInit /\ [][ParseNext]_vars

\* ------------------------------------------------------------------ main
\* POLICY_START_DATE and POLICY_END_DATE (lines 25-26), as <<year, month, day>>.
POLICY_START_DATE == <<2026, 1, 1>>
POLICY_END_DATE == <<2026, 12, 31>>

\* a < b on dates.
DateBefore(a, b) ==
    \/ a[1] < b[1]
    \/ a[1] = b[1] /\ a[2] < b[2]
    \/ a[1] = b[1] /\ a[2] = b[2] /\ a[3] < b[3]

\* STATE_ADJUSTER_MAP (lines 32-37).
STATE_ADJUSTER_MAP ==
    [s \in {"GA", "FL", "TX", "AL"} |->
        CASE s = "GA" -> "Sarah Mitchell"
          [] s = "FL" -> "Carlos Rodriguez"
          [] s = "TX" -> "Jennifer Thompson"
          [] s = "AL" -> "Michael Chen"]

\* validate_policy_date (lines 68-74): <<within the period, message>>.
validate_policy_date(loss_date) ==
    IF DateBefore(loss_date, POLICY_START_DATE)
    THEN <<FALSE, "Potential Coverage Gap: Date of Loss precedes policy inception.">>
    ELSE IF DateBefore(POLICY_END_DATE, loss_date)
    THEN <<FALSE, "Potential Coverage Gap: Date of Loss exceeds policy expiration.">>
    ELSE <<TRUE, "Date of Loss within policy period.">>

\* get_adjuster_info (lines 77-81).
get_adjuster_info(state) ==
    IF state \in DOMAIN STATE_ADJUSTER_MAP
    THEN Some(<<STATE_ADJUSTER_MAP[state], state>>)
    ELSE None

\* validate_form without the check of the description.
validate_form_NoDescription(data) ==
    LET errors ==
            (IF data.policy_number = "" THEN <<"Policy Number is required">> ELSE <<>>)
         \o (IF data.state = "" THEN <<"State is required">> ELSE <<>>)
         \o (IF data.loss_type = "" THEN <<"Type of Loss is required">> ELSE <<>>)
         \o (IF data.email = "" THEN <<"Email Address is required">> ELSE <<>>)
         \o (IF data.phone = "" THEN <<"Phone Number is required">> ELSE <<>>)
    IN <<Len(errors) = 0, errors>>

\* validate_form (lines 564-581): <<no error, the errors in order>>.
validate_form(data) ==
    LET errors ==
            (IF data.policy_number = "" THEN <<"Policy Number is required">> ELSE <<>>)
         \o (IF data.state = "" THEN <<"State is required">> ELSE <<>>)
         \o (IF data.loss_type = "" THEN <<"Type of Loss is required">> ELSE <<>>)
         \o (IF data.description = "" THEN <<"Description of Loss is required">> ELSE <<>>)
         \o (IF data.email = "" THEN <<"Email Address is required">> ELSE <<>>)
         \o (IF data.phone = "" THEN <<"Phone Number is required">> ELSE <<>>)
    IN <<Len(errors) = 0, errors>>

\* What render_intake_form (lines 465-561) can return as form_data: text
\* inputs empty or filled, select boxes with "" as first option, a loss date
\* on either side of each end of the policy period, uploads.
Forms ==
    [policy_number : {"", "POL-2026-001234"},
     state : {"", "GA", "TX"},
     loss_date : {<<2025, 12, 31>>, <<2026, 1, 1>>, <<2026, 12, 31>>, <<2027, 1, 1>>},
     loss_type : {""} \cup LOSS_TYPES,
     description : Descriptions,
     email : {"", "a@b.c"},
     phone : {"", "555"},
     uploaded_files : {<<>>, <<[id |-> 1, ok |-> FALSE], [id |-> 2, ok |-> TRUE]>>}]

\* Values of generate_claim_id (lines 61-65): CLM-<year>-<4 random characters>.
ClaimIds == {"CLM-2026-A1B2", "CLM-2026-ZZZZ"}

\* main as render_intake_form returns (line 707); analyze_claim_with_ai has
\* not been called.
MainInit ==
    /\ main \in [pc : {"L707"}, submitted : BOOLEAN, form_data : Forms,
                 shown : {<<>>}, adjuster_info : {None}, claim_id : {None},
                 ai_analysis : {None}]
    /\ GOOGLE_API_KEY \in ApiKeys
    /\ description = ""
    /\ loss_type = ""
    /\ uploaded_images = <<>>
    /\ status_container = [label |-> "", state |-> ""]
    /\ pc = "idle"
    /\ content_parts = <<>>
    /\ img_idx = 0
    /\ response_text = None
    /\ lines = <<>>
    /\ result = None
    /\ exc = <<>>
    /\ returned = None
    /\ opened = <<>>
    /\ generate_calls = <<>>

\* What only analyze_claim_with_ai writes, and its arguments.
function_state ==
    <<status_container, pc, content_parts, img_idx, response_text, lines,
      result, exc, returned, opened, generate_calls>>

arguments == <<description, loss_type, uploaded_images>>

\* Line 710: if submitted
CheckSubmitted ==
    /\ main.pc = "L707"
    /\ main' = [main EXCEPT !.pc = IF main.submitted THEN "L712" ELSE "end"]
    /\ UNCHANGED <<GOOGLE_API_KEY, arguments, function_state>>

\* Lines 712-717: validate; on errors show each and return.
ValidateForm ==
    /\ main.pc = "L712"
    /\ LET v == validate_form(main.form_data) IN
        main' =
            IF v[1] THEN [main EXCEPT !.pc = "L720"]
            ELSE [main EXCEPT
                    !.pc = "end",
                    !.shown = main.shown
                        \o [i \in 1..Len(v[2]) |-> [kind |-> "error", text |-> v[2][i]]]]
    /\ UNCHANGED <<GOOGLE_API_KEY, arguments, function_state>>

\* Lines 720-722: a loss date outside the policy period shows a warning.
CheckPolicyDate ==
    /\ main.pc = "L720"
    /\ LET d == validate_policy_date(main.form_data.loss_date) IN
        main' =
            [main EXCEPT
                !.pc = "L725",
                !.shown = IF d[1] THEN main.shown
                          ELSE Append(main.shown, [kind |-> "warning", text |-> d[2]])]
    /\ UNCHANGED <<GOOGLE_API_KEY, arguments, function_state>>

\* Lines 725-727: the adjuster of the state, shown when there is one.
AssignAdjuster ==
    /\ main.pc = "L725"
    /\ LET a == get_adjuster_info(main.form_data.state) IN
        main' =
            [main EXCEPT
                !.pc = "L730",
                !.adjuster_info = a,
                !.shown = IF a # None
                          THEN Append(main.shown, [kind |-> "info", text |-> a[1][1]])
                          ELSE main.shown]
    /\ UNCHANGED <<GOOGLE_API_KEY, arguments, function_state>>

\* Line 730: claim_id = generate_claim_id()
GenerateClaimId ==
    /\ main.pc = "L730"
    /\ \E id \in ClaimIds :
          main' = [main EXCEPT !.pc = "L733", !.claim_id = Some(id)]
    /\ UNCHANGED <<GOOGLE_API_KEY, arguments, function_state>>

\* Lines 733-740: the status container is created and analyze_claim_with_ai
\* is called with the form's description, loss type and uploads.
CallAnalyze ==
    /\ main.pc = "L733"
    /\ pc = "idle"
    /\ main' = [main EXCEPT !.pc = "L735"]
    /\ description' = main.form_data.description
    /\ loss_type' = main.form_data.loss_type
    /\ uploaded_images' = main.form_data.uploaded_files
    /\ status_container' = [label |-> "Analyzing Claim Data...", state |-> "running"]
    /\ pc' = "L96"
    /\ UNCHANGED <<GOOGLE_API_KEY, content_parts, img_idx, response_text, lines,
                   result, exc, returned, opened, generate_calls>>

\* Line 735: the call returned; ai_analysis is bound.
AnalyzeReturned ==
    /\ main.pc = "L735"
    /\ pc = "done"
    /\ main' = [main EXCEPT !.pc = "L743", !.ai_analysis = returned]
    /\ UNCHANGED <<GOOGLE_API_KEY, arguments, function_state>>

\* Line 735: an exception left the call; main has no handler and ends with it.
AnalyzeRaised ==
    /\ main.pc = "L735"
    /\ pc = "raised"
    /\ main' = [main EXCEPT !.pc = "crashed"]
    /\ UNCHANGED <<GOOGLE_API_KEY, arguments, function_state>>

\* Line 743: render_claim_receipt (lines 602-684), with the emergency alert
\* first when ale_alert is set.
RenderReceipt ==
    /\ main.pc = "L743"
    /\ main' =
          [main EXCEPT
              !.pc = "end",
              !.shown =
                  (IF main.ai_analysis[1].ale_alert
                   THEN Append(main.shown, [kind |-> "alert", text |-> "IMMEDIATE ACTION REQUIRED"])
                   ELSE main.shown)
                  \o <<[kind |-> "receipt", text |-> main.claim_id[1]]>>]
    /\ UNCHANGED <<GOOGLE_API_KEY, arguments, function_state>>

MainNext ==
    \/ CheckSubmitted
    \/ ValidateForm
    \/ CheckPolicyDate
    \/ AssignAdjuster
    \/ GenerateClaimId
    \/ CallAnalyze
    \/ AnalyzeReturned
    \/ AnalyzeRaised
    \/ RenderReceipt
    \/ Next

MainSpec == MainInit /\ [][MainNext]_vars

\* ------------------------------------------------------------------ claims
ResultFields ==
    {"risk_level", "risk_flags", "subrogation_potential", "ale_alert",
     "ai_summary"}

\* GOOGLE_API_KEY is absent or empty.
KeyAbsent == GOOGLE_API_KEY = None \/ GOOGLE_API_KEY = Some(<<>>)

\* The call is over: it returned, or an exception left it.
Terminated == pc \in {"done", "raised"}

\* The call returned the parsed result (line 171).
ReturnedParsed == pc = "done" /\ exc = <<>> /\ ~KeyAbsent

\* The steps of the try block that precede generate_content (line 135).
BeforeGenerate == {"L106", "L107", "L125", "L134"}

\* C1: analyze_claim_with_ai never propagates an exception: whatever the
\* credential and whatever its collaborators do, a call that is over has
\* returned a record of exactly the five result fields.
C1_NeverRaises ==
    Terminated =>
        /\ pc = "done"
        /\ returned # None
        /\ DOMAIN returned[1] = ResultFields

\* C2: every returned result has risk_level Low, Medium, High or Unknown, and
\* it is Unknown exactly when no key is configured or a step of the analysis
\* raised.
C2_RiskLevelDomain ==
    pc = "done" =>
        /\ returned[1].risk_level \in {T_Low, T_Medium, T_High, T_Unknown}
        /\ (returned[1].risk_level = T_Unknown)
              <=> (KeyAbsent \/ exc # <<>>)

\* A reply that names its own level Unknown was parsed and returned as Medium.
C2_Witness ==
    /\ ReturnedParsed
    /\ \E i \in 1..Len(Split(response_text[1], "\n")) :
          Split(response_text[1], "\n")[i] = L_RISK_LEVEL \o <<" ">> \o T_Unknown
    /\ returned[1].risk_level = T_Medium

\* C3: with no key configured (None or empty) the call goes from line 96
\* straight to its return, with the fixed Unknown record, whatever the
\* description, loss type and images; no image is opened, generate_content
\* is not called and the status container is not touched.
C3_KeyMissing ==
    KeyAbsent =>
        /\ pc \in {"L96", "done"}
        /\ opened = <<>>
        /\ generate_calls = <<>>
        /\ exc = <<>>
        /\ status_container.label = "Analyzing Claim Data..."
        /\ pc = "done" =>
              /\ returned # None
              /\ DOMAIN returned[1] = ResultFields
              /\ returned[1].risk_level = T_Unknown
              /\ returned[1].risk_flags = <<T_KeyMissingFlag>>
              /\ returned[1].subrogation_potential = None
              /\ returned[1].ale_alert = FALSE
              /\ returned[1].ai_summary = T_KeyMissingSummary

\* The call returned with an empty key although images were uploaded.
C3_Witness ==
    /\ pc = "done"
    /\ GOOGLE_API_KEY = Some(<<>>)
    /\ Len(uploaded_images) >= 1
    /\ returned # None

\* C4: when a key is configured and generate_content raises, the call returns
\* Unknown, one flag embedding the error text, no subrogation, no ALE alert
\* and the fixed failure summary; no exception escapes.
C4_GenerateRaises ==
    (Terminated /\ exc # <<>> /\ exc[1].at = "L135") =>
        /\ pc = "done"
        /\ returned =
              Some([risk_level |-> T_Unknown,
                    risk_flags |-> <<T_ErrorFlagPrefix \o exc[1].text>>,
                    subrogation_potential |-> None,
                    ale_alert |-> FALSE,
                    ai_summary |-> T_FailureSummary])

\* The images among the first three uploaded that can be decoded, in order.
ForwardedImages ==
    LET n == IF Len(uploaded_images) < 3 THEN Len(uploaded_images) ELSE 3
        good == SelectSeq([i \in 1..n |-> uploaded_images[i]],
                          LAMBDA img : img.ok)
    IN [k \in 1..Len(good) |-> [image |-> good[k].id]]

\* C5: the parts passed to generate_content are the prompt followed by the
\* decodable images among the first three, in upload order; no image from
\* position 4 on is ever opened, and an undecodable image raises nothing.
C5_ContentParts ==
    /\ \A i \in 1..Len(opened) : opened[i].id = i /\ i <= 3
    /\ \A i \in 1..Len(generate_calls) :
          /\ generate_calls[i] =
                <<[loss_type |-> loss_type, description |-> description]>>
                    \o ForwardedImages
          /\ Len(opened) = Len(uploaded_images) \/ Len(opened) = 3
    /\ \A i \in 1..Len(exc) : exc[i].at \in
          {"L106", "L107", "L125", "L134", "L135", "L136", "L138", "L168",
           "L169", "L174"}

\* More than three images with an undecodable second one: exactly the first
\* and the third were forwarded.
C5_Witness ==
    /\ Len(uploaded_images) > 3
    /\ uploaded_images[1].ok /\ ~uploaded_images[2].ok /\ uploaded_images[3].ok
    /\ Len(generate_calls) = 1
    /\ Len(generate_calls[1]) = 3
    /\ generate_calls[1][2] = [image |-> 1]
    /\ generate_calls[1][3] = [image |-> 3]

\* C6 as stated: with a key configured, a call that is over has invoked
\* generate_content exactly once.
C6_ExactlyOnce ==
    (Terminated /\ ~KeyAbsent) => Len(generate_calls) = 1

\* C6 amended: generate_content is invoked at most once, and exactly once
\* unless a step before it raised; when invoked, every image of the slice has
\* been handled and the parts passed are the assembled ones; parsing starts
\* only after the invocation; it is not invoked again after it raised.
C6_AtMostOnce ==
    /\ Len(generate_calls) <= 1
    /\ (Terminated /\ ~KeyAbsent
            /\ (exc = <<>> \/ exc[1].at \notin BeforeGenerate))
          => Len(generate_calls) = 1
    /\ generate_calls # <<>> =>
          /\ img_idx > Len(uploaded_images) \/ img_idx > 3
          /\ generate_calls[1] = content_parts
    /\ (result # None \/ response_text # None) => Len(generate_calls) = 1
    /\ pc \in {"L106", "L107", "L125", "L126", "L127", "L134", "L135"}
          => generate_calls = <<>> /\ result = None

\* generate_content raised and the call ended without a second invocation.
C6_Witness ==
    /\ Terminated
    /\ exc # <<>>
    /\ exc[1].at = "L135"
    /\ Len(generate_calls) = 1

\* The reply's lines as the model sent them.
ReplyLines == Split(response_text[1], "\n")

\* The lines that begin with the label, as written and once trimmed.
LinesWith(label) == {i \in 1..Len(ReplyLines) : StartsWith(ReplyLines[i], label)}
TrimmedLinesWith(label) ==
    {i \in 1..Len(ReplyLines) : StartsWith(Strip(ReplyLines[i]), label)}

\* Every line that carries the label once trimmed also begins with it as
\* written, so that what counts as a line of that label is not in question.
PlainLabel(label) == TrimmedLinesWith(label) = LinesWith(label)

\* The last line that begins with the label.
LastLine(label) ==
    ReplyLines[CHOOSE i \in LinesWith(label) : \A j \in LinesWith(label) : j <= i]

\* The text after the leading label of a line, trimmed.
Remainder(line, label) == Strip(SubSeq(line, Len(label) + 1, Len(line)))

\* C7: with one RISK_LEVEL line, risk_level is the trimmed text after the
\* leading label when that is exactly Low, Medium or High, and Medium for any
\* other remainder; with no RISK_LEVEL line it is Medium.
C7_RiskLevel ==
    (ReturnedParsed /\ PlainLabel(L_RISK_LEVEL)
            /\ Cardinality(LinesWith(L_RISK_LEVEL)) <= 1) =>
        returned[1].risk_level =
            IF LinesWith(L_RISK_LEVEL) = {} THEN T_Medium
            ELSE LET rem == Remainder(LastLine(L_RISK_LEVEL), L_RISK_LEVEL) IN
                 IF rem \in {T_Low, T_Medium, T_High} THEN rem ELSE T_Medium

\* C8: with exactly one RISK_FLAGS line, risk_flags is empty when the trimmed
\* remainder is `none` in any case, and otherwise the remainder split on
\* commas, each segment trimmed, empty segments dropped, in order.
C8_RiskFlags ==
    (ReturnedParsed /\ PlainLabel(L_RISK_FLAGS)
            /\ Cardinality(LinesWith(L_RISK_FLAGS)) = 1) =>
        LET rem == Remainder(LastLine(L_RISK_FLAGS), L_RISK_FLAGS)
            segs == Split(rem, ",")
        IN returned[1].risk_flags =
              IF Lower(rem) = T_none THEN <<>>
              ELSE SelectSeq([i \in 1..Len(segs) |-> Strip(segs[i])],
                             LAMBDA f : f # <<>>)

\* C9: with exactly one SUBROGATION_POTENTIAL line, subrogation_potential is
\* absent when the trimmed remainder is `none`, `none identified` or `n/a` in
\* any case, and otherwise the trimmed remainder itself, empty text included.
C9_Subrogation ==
    (ReturnedParsed /\ PlainLabel(L_SUBROGATION_POTENTIAL)
            /\ Cardinality(LinesWith(L_SUBROGATION_POTENTIAL)) = 1) =>
        LET rem == Remainder(LastLine(L_SUBROGATION_POTENTIAL),
                             L_SUBROGATION_POTENTIAL)
        IN returned[1].subrogation_potential =
              IF Lower(rem) \in {T_none, T_none_identified, T_na} THEN None
              ELSE Some(rem)

\* C10: ale_alert is true only if the trimmed, lower-cased text after the
\* leading label of the last ALE_ALERT line is exactly `yes`; any other
\* remainder, and a reply with no ALE_ALERT line, give false.
C10_AleAlert ==
    (ReturnedParsed /\ PlainLabel(L_ALE_ALERT)) =>
        returned[1].ale_alert =
            /\ LinesWith(L_ALE_ALERT) # {}
            /\ Lower(Remainder(LastLine(L_ALE_ALERT), L_ALE_ALERT)) = T_yes

\* C11: ai_summary is the text after the leading SUMMARY: label of the (last)
\* SUMMARY line, trimmed and otherwise unchanged, also when that text contains
\* SUMMARY: again; with no SUMMARY line it is empty.
C11_Summary ==
    (ReturnedParsed /\ PlainLabel(L_SUMMARY)) =>
        returned[1].ai_summary =
            IF LinesWith(L_SUMMARY) = {} THEN <<>>
            ELSE Remainder(LastLine(L_SUMMARY), L_SUMMARY)

\* The five labels.
Labels ==
    {L_RISK_LEVEL, L_RISK_FLAGS, L_SUBROGATION_POTENTIAL, L_ALE_ALERT, L_SUMMARY}

\* The result of the loop of lines 149-166 over the lines ls, from result r.
RECURSIVE ParseAll(_, _)
ParseAll(r, ls) ==
    IF ls = <<>> THEN r ELSE ParseAll(ParseLine(r, Head(ls)), Tail(ls))

\* The reply's lines at the positions in keep, in their order.
KeepLines(keep) ==
    [k \in 1..Cardinality(keep) |->
        ReplyLines[CHOOSE i \in keep : Cardinality({j \in keep : j < i}) = k - 1]]

\* The positions of the lines of a label that a later line of it follows.
EarlierLines(label) ==
    {i \in LinesWith(label) : \E j \in LinesWith(label) : i < j}

\* C12: for each label, only its last line counts: the result is that of the
\* reply with every earlier line of that label deleted.
C12_LastWins ==
    (ReturnedParsed /\ \A label \in Labels : PlainLabel(label)) =>
        \A label \in Labels :
            returned[1] =
                ParseAll(DefaultResult,
                         KeepLines((1..Len(ReplyLines)) \ EarlierLines(label)))

\* p is a prefix of s, character by character.
HasPrefix(s, p) == Len(s) >= Len(p) /\ \A i \in 1..Len(p) : s[i] = p[i]

\* The lines of ls at the positions in keep, in their order.
Kept(ls, keep) ==
    [k \in 1..Cardinality(keep) |->
        ls[CHOOSE i \in keep : Cardinality({j \in keep : j < i}) = k - 1]]

\* The positions of the lines of ls that begin with one of the five labels,
\* as written and once trimmed.
LabelLines(ls) ==
    {i \in 1..Len(ls) : \E label \in Labels : HasPrefix(ls[i], label)}
TrimmedLabelLines(ls) ==
    {i \in 1..Len(ls) : \E label \in Labels : HasPrefix(Strip(ls[i]), label)}

\* C13 as stated: only the lines that begin, as written, with one of the five
\* labels affect the result; the result is that of the reply with every
\* other line deleted.
C13_ExactPrefixOnly ==
    ReturnedParsed =>
        LET ls == ReplyLines IN
        returned[1] = ParseAll(DefaultResult, Kept(ls, LabelLines(ls)))

\* C13 amended: only the lines that begin with one of the five labels once
\* surrounding whitespace is trimmed affect the result; the result is that of
\* the reply with every other line deleted, the defaults when no such line
\* exists, and the loop raises nothing.
C13_TrimmedPrefixOnly ==
    /\ ReturnedParsed =>
          LET ls == ReplyLines
              keep == TrimmedLabelLines(ls)
          IN /\ returned[1] = ParseAll(DefaultResult, Kept(ls, keep))
             /\ keep = {} =>
                   returned[1] = [risk_level |-> T_Medium,
                                  risk_flags |-> <<>>,
                                  subrogation_potential |-> None,
                                  ale_alert |-> FALSE,
                                  ai_summary |-> <<>>]
    /\ \A i \in 1..Len(exc) : exc[i].at \notin {"L141", "L149"}

\* A reply of an indented RISK_LEVEL line, which was matched, and a line with
\* text before the ALE_ALERT label, which was ignored.
C13_Witness ==
    /\ ReturnedParsed
    /\ Len(ReplyLines) = 2
    /\ ReplyLines[1] = <<" ">> \o L_RISK_LEVEL \o <<" ">> \o T_Low
    /\ ReplyLines[2] = <<"N","o","t","e"," ">> \o L_ALE_ALERT \o <<" ">> \o T_yes
    /\ returned[1].risk_level = T_Low
    /\ returned[1].ale_alert = FALSE

RequiredFields == {"policy_number", "state", "loss_type", "description", "email", "phone"}

RequiredEmpty == {f \in RequiredFields : main.form_data[f] = ""}

OutsidePeriod ==
    \/ DateBefore(main.form_data.loss_date, <<2026, 1, 1>>)
    \/ DateBefore(<<2026, 12, 31>>, main.form_data.loss_date)

\* A step of main itself, outside the call.
MainStep ==
    \/ CheckSubmitted \/ ValidateForm \/ CheckPolicyDate \/ AssignAdjuster
    \/ GenerateClaimId \/ CallAnalyze \/ AnalyzeReturned \/ AnalyzeRaised
    \/ RenderReceipt

Shown(kind) == {i \in 1..Len(main.shown) : main.shown[i].kind = kind}

\* C14: in main the analysis is reached only after validate_form accepted the
\* submission, so it is called with the form's non-empty description and
\* non-empty loss type; with any required field empty the submission ends
\* after one error per empty field, with no claim id, no analysis call and no
\* receipt; a loss date outside the policy period adds a warning and nothing
\* else: the accepted submission goes on to the claim id and the analysis,
\* and ends with the receipt whenever the analysis returns.
C14_ValidatedFirst ==
    /\ pc # "idle" =>
          /\ main.submitted
          /\ RequiredEmpty = {}
          /\ description # "" /\ loss_type # ""
          /\ description = main.form_data.description
          /\ loss_type = main.form_data.loss_type
          /\ uploaded_images = main.form_data.uploaded_files
    /\ RequiredEmpty # {} =>
          /\ main.pc \in {"L707", "L712", "end"}
          /\ main.claim_id = None
          /\ pc = "idle" /\ generate_calls = <<>> /\ main.ai_analysis = None
          /\ Shown("receipt") = {}
          /\ (main.pc = "end" /\ main.submitted) =>
                /\ Shown("error") = 1..Len(main.shown)
                /\ Len(main.shown) = Cardinality(RequiredEmpty)
    /\ (main.submitted /\ RequiredEmpty = {}) =>
          /\ Shown("error") = {}
          /\ main.pc \notin {"L707", "L712", "L720"} =>
                Cardinality(Shown("warning")) = IF OutsidePeriod THEN 1 ELSE 0
          /\ main.pc \in {"L733", "L735", "L743", "end", "crashed"} => main.claim_id # None
          /\ main.pc \in {"L735", "L743", "end", "crashed"} => pc # "idle"
          /\ main.pc = "crashed" <=> (pc = "raised" /\ main.pc # "L735")
          /\ main.pc = "end" =>
                /\ pc = "done"
                /\ main.ai_analysis = returned
                /\ Shown("receipt") = {Len(main.shown)}
                /\ main.shown[Len(main.shown)].text = main.claim_id[1]
          /\ (/\ main.pc \notin {"end", "crashed"}
              /\ main.pc = "L735" => pc \in {"done", "raised"}) =>
                ENABLED MainStep

    /\ ~main.submitted => (main.shown = <<>> /\ pc = "idle" /\ main.claim_id = None)

C14_Witness ==
    /\ main.pc = "end"
    /\ main.submitted
    /\ RequiredEmpty = {}
    /\ OutsidePeriod
    /\ Shown("warning") # {}
    /\ Shown("receipt") # {}
    /\ generate_calls # <<>>
    /\ generate_calls[1][1] = Prompt(main.form_data.loss_type, main.form_data.description)

====
